---- MODULE Spec2Model ----
(***************************************************************************)
(* Model of folder_sync (src/sync.py): one-way synchronisation of a single *)
(* Dropbox folder into a local directory.  One invocation of the script is *)
(* a run: argument check, the recursive paginated walk (download_folder /  *)
(* handle_file), cleanup, delete_empty_folders and prune_log.  The script  *)
(* is started again by cron, so a behaviour is a bounded sequence of runs  *)
(* over the same local filesystem and log file.                            *)
(*                                                                         *)
(* Strings that name paths are sequences of tokens: "/" is the separator   *)
(* token and every other token is one path segment.  A pathlib.Path is the *)
(* sequence of its parts below the filesystem root.  Time is counted in    *)
(* hours since an arbitrary epoch.                                         *)
(***************************************************************************)
EXTENDS Integers, Sequences, FiniteSets, TLC

VARIABLES
    dropbox_path,   \* args.dropbox_path[0], the command-line argument
    remote,         \* the Dropbox side: folder path -> sequence of listing pages
    fs,             \* the local filesystem: node -> [kind, mtime, content]
    now,            \* the wall clock (hours, UTC instant)
    log,            \* LOGFILE: [exists, lines, nl]
    pc,             \* position of the run in __main__
    stack,          \* activation records of download_folder, innermost last
    current_paths,  \* the set returned by the top-level download_folder
    exit,           \* how the process ended: "none" while running
    calls,          \* requests issued to the Dropbox API in this run, in order
    processed,      \* listing entries handled in this run, in order
    removed,        \* paths this run passed to os.remove or os.rmdir
    run,            \* number of the current run
    hist,           \* one summary per finished run
    faults          \* requests that did not come back with status 200 so far

vars == <<dropbox_path, remote, fs, now, log, pc, stack, current_paths,
          exit, calls, processed, removed, run, hist, faults>>

-----------------------------------------------------------------------------
(* Bounds of the model *)

MaxRuns == 2
\* requests that may come back with something else than status 200, over
\* all runs of a behaviour
MaxFaults == 2

-----------------------------------------------------------------------------
(* Program and environment constants *)

RetentionDays == 30
HoursPerDay == 24
\* utc offset (hours) of the zone gettz() returns on the host
LocalUtcOffset == 1
\* the clock when the first run starts, and the mtime of whatever the local
\* root holds before the first run
StartTime == 10
InitMtime == 5
\* hours between two cron runs
CronGap == 1

\* args.output[0] as a pathlib.Path
Root == <<"out">>

-----------------------------------------------------------------------------
(* Path strings and pathlib *)

RECURSIVE Lstrip(_)
\* str.lstrip("/")
Lstrip(s) == IF s # <<>> /\ Head(s) = "/" THEN Lstrip(Tail(s)) ELSE s

NotSep(x) == x # "/"

\* the parts of a relative or absolute path string
Parts(s) == SelectSeq(s, NotSep)

\* pathlib's root_folder / s : an absolute right operand replaces the left one
PathJoin(root_folder, s) ==
    IF s # <<>> /\ Head(s) = "/" THEN Parts(s) ELSE root_folder \o Parts(s)

\* root_folder / entry["path_display"].lstrip("/")
LocalPath(root_folder, path_display) == PathJoin(root_folder, Lstrip(path_display))

Parent(p) == SubSeq(p, 1, Len(p) - 1)

IsPrefix(p, q) == Len(p) <= Len(q) /\ SubSeq(q, 1, Len(p)) = p

\* p lies underneath root_folder (or is root_folder)
Under(root_folder, p) == IsPrefix(root_folder, p)

RECURSIVE ResolveFrom(_, _)
ResolveFrom(at, p) ==
    IF p = <<>> THEN at
    ELSE IF Head(p) = ".."
         THEN ResolveFrom(IF at = <<>> THEN at ELSE Parent(at), Tail(p))
         ELSE ResolveFrom(Append(at, Head(p)), Tail(p))

\* the place the operating system reaches when it is handed the absolute
\* path p: pathlib keeps ".." parts, the system steps to the parent
Resolve(p) == ResolveFrom(<<>>, p)

\* the places Path.mkdir(parents=True) passes through on the way to p
Chain(p) == { Resolve(SubSeq(p, 1, k)) : k \in 1..Len(p) }

-----------------------------------------------------------------------------
(* The local filesystem *)

R == Root \o <<"R">>

\* a place next to the root, not underneath it
NodeX == <<"x">>

Nodes ==
    { Root, R, NodeX,
      R \o <<"a">>,
      R \o <<"d">>, R \o <<"d", "b">>,
      R \o <<"e">>,
      R \o <<"s">>, R \o <<"s", "t">>, R \o <<"s", "t", "u">> }

Absent == [kind |-> "none", mtime |-> 0, content |-> "none"]
DirNode(t) == [kind |-> "dir", mtime |-> t, content |-> "none"]
FileNode(t, c) == [kind |-> "file", mtime |-> t, content |-> c]

Exists(f, p) == p \in DOMAIN f /\ f[p].kind # "none"
IsDir(f, p) == p \in DOMAIN f /\ f[p].kind = "dir"
IsFile(f, p) == p \in DOMAIN f /\ f[p].kind = "file"

Children(f, p) == { q \in DOMAIN f : Len(q) = Len(p) + 1 /\ Parent(q) = p /\ Exists(f, q) }
SubDirs(f, p) == { q \in Children(f, p) : IsDir(f, q) }
Files(f, p) == { q \in Children(f, p) : IsFile(f, q) }

\* every ancestor of p down from the top is a directory, so p is reachable
Reachable(f, p) == \A q \in DOMAIN f : (IsPrefix(q, p) /\ q # p) => IsDir(f, q)

\* the directories os.walk(root) visits, root included
WalkDirs(f, root) == { d \in DOMAIN f : Under(root, d) /\ IsDir(f, d) /\ Reachable(f, d) }

\* the files os.walk(root) reports
WalkFiles(f, root) == { p \in DOMAIN f : IsFile(f, p) /\ Parent(p) \in WalkDirs(f, root) }

\* Path.mkdir(parents=True, exist_ok=True) raises when p or one of its
\* ancestors exists and is not a directory
MkdirRaises(f, p) == \E q \in DOMAIN f : q \in Chain(p) /\ IsFile(f, q)

\* Path.mkdir(parents=True, exist_ok=True) when it does not raise: the missing
\* directories of the chain are created; a directory that gains an entry has
\* its mtime set
Mkdir(f, p, t) ==
    [q \in DOMAIN f |->
        IF q \in Chain(p) /\ ~Exists(f, q) THEN DirNode(t)
        ELSE IF IsDir(f, q) /\ \E c \in DOMAIN f :
                    c \in Chain(p) /\ Parent(c) = q /\ ~Exists(f, c)
             THEN [f[q] EXCEPT !.mtime = t]
             ELSE f[q]]

\* Path.write_bytes on a path that is not a directory
WriteBytes(f, p, t, c) ==
    [q \in DOMAIN f |->
        IF q = p THEN FileNode(t, c)
        ELSE IF q = Parent(p) /\ ~Exists(f, p) THEN [f[q] EXCEPT !.mtime = t]
        ELSE f[q]]

\* os.remove / os.rmdir of the paths in ps
Unlink(f, ps, t) ==
    [q \in DOMAIN f |->
        IF q \in ps THEN Absent
        ELSE IF \E p \in ps : Parent(p) = q THEN [f[q] EXCEPT !.mtime = t]
        ELSE f[q]]

-----------------------------------------------------------------------------
(* Timestamps *)

\* a timezone-aware datetime: wall-clock reading and utc offset
Stamp(w, o) == [wall |-> w, off |-> o]
Instant(s) == s.wall - s.off

\* datetime.datetime.fromtimestamp(st_mtime, tz=gettz())
FromTimestamp(mtime) == Stamp(mtime + LocalUtcOffset, LocalUtcOffset)

LaterNaive(a, b) == a.wall > b.wall

\* a > b on two aware datetimes
Later(a, b) == Instant(a) > Instant(b)

\* datetime.datetime.now() as the naive local reading isoformat() prints
LocalNow(t) == t + LocalUtcOffset

-----------------------------------------------------------------------------
(* The Dropbox side *)

NoStamp == Stamp(0, 0)
FolderEntry(p) == [tag |-> "folder", path_display |-> p, client_modified |-> NoStamp]
FileEntry(p, cm) == [tag |-> "file", path_display |-> p, client_modified |-> cm]

DbxR == <<"/", "R">>
DbxA == DbxR \o <<"/", "a">>
DbxD == DbxR \o <<"/", "d">>
DbxB == DbxD \o <<"/", "b">>
DbxE == DbxR \o <<"/", "e">>

\* client_modified values of file a, relative to InitMtime and StartTime:
\* older than the local copy, equal to it (in another zone), newer than it,
\* and later than the moment the first run can write the file
StampsA == { Stamp(4, 0), Stamp(7, 2), Stamp(6, 0), Stamp(12, 0) }
StampB == Stamp(6, 0)

\* /R lists in three pages: folder d (one file b), folder e (no entries), file a
TreeFull(cmA) ==
    (DbxR :> << <<FolderEntry(DbxD)>>, <<FolderEntry(DbxE)>>, <<FileEntry(DbxA, cmA)>> >>)
    @@ (DbxD :> << <<FileEntry(DbxB, StampB)>> >>)
    @@ (DbxE :> << <<>> >>)

\* /R holds nothing
TreeEmpty == (DbxR :> << <<>> >>)

\* a listing of /R whose second page names a file by a path that climbs
\* out of the folder: /R/../../x
DbxX == DbxR \o <<"/", "..", "/", "..", "/", "x">>
TreeEscape ==
    (DbxR :> << <<FolderEntry(DbxD)>>, <<FileEntry(DbxX, StampB)>> >>)
    @@ (DbxD :> << <<FileEntry(DbxB, StampB)>> >>)

RemoteTrees == { TreeFull(cm) : cm \in StampsA } \cup { TreeEmpty }

\* the entries of the tree rooted at folder p, in the order the walk meets them
RECURSIVE EntriesOf(_, _, _)
RECURSIVE PageEntries(_, _, _)
PageEntries(tree, es, depth) ==
    IF es = <<>> THEN <<>>
    ELSE LET e == Head(es) IN
         <<e>> \o (IF e.tag = "folder" /\ e.path_display \in DOMAIN tree /\ depth > 0
                   THEN EntriesOf(tree, e.path_display, depth - 1) ELSE <<>>)
              \o PageEntries(tree, Tail(es), depth)

RECURSIVE Flatten(_)
Flatten(pages) == IF pages = <<>> THEN <<>> ELSE Head(pages) \o Flatten(Tail(pages))

EntriesOf(tree, p, depth) ==
    IF p \in DOMAIN tree THEN PageEntries(tree, Flatten(tree[p]), depth) ELSE <<>>

MaxDepth == 3
AllEntries(tree, p) == EntriesOf(tree, p, MaxDepth)

Range(sq) == { sq[i] : i \in DOMAIN sq }

RemoteFiles(tree, p) == { e \in Range(AllEntries(tree, p)) : e.tag = "file" }
RemoteFolders(tree, p) == { e \in Range(AllEntries(tree, p)) : e.tag = "folder" }

\* list_folder: the first page of the folder, the cursor naming what follows
ListFolderResponse(tree, p) ==
    [entries |-> tree[p][1],
     cursor |-> [path |-> p, page |-> 1],
     has_more |-> Len(tree[p]) > 1]

\* list_folder/continue: the page after the one the cursor came with
ListFolderContinueResponse(tree, cursor) ==
    [entries |-> tree[cursor.path][cursor.page + 1],
     cursor |-> [path |-> cursor.path, page |-> cursor.page + 1],
     has_more |-> Len(tree[cursor.path]) > cursor.page + 1]

\* what a request can come back with: status 200, another status, or the
\* transport raising instead of returning a response
Outcomes == {"200", "error", "exception"}

\* the outcomes left once MaxFaults requests have failed
OutcomesLeft(n) == IF n < MaxFaults THEN Outcomes ELSE {"200"}

Fault(reqs) == Cardinality({ i \in DOMAIN reqs : reqs[i].status # "200" })

-----------------------------------------------------------------------------
(* The log file *)

NoLog == [exists |-> FALSE, lines |-> <<>>, nl |-> TRUE]

\* write_log: open(LOGFILE, "a") and write "<now> - <msg>\n".  The text goes
\* to the end of the file: onto the last line when the file does not end
\* with a newline
WriteLog(lg, t, msg) ==
    LET ev == [ts |-> LocalNow(t), msg |-> msg]
        n == Len(lg.lines)
    IN  [exists |-> TRUE,
         lines |-> IF n = 0 \/ lg.nl THEN Append(lg.lines, <<ev>>)
                   ELSE [lg.lines EXCEPT ![n] = Append(@, ev)],
         nl |-> TRUE]

RECURSIVE WriteLogs(_, _, _)
WriteLogs(lg, t, msgs) ==
    IF msgs = <<>> THEN lg ELSE WriteLogs(WriteLog(lg, t, Head(msgs)), t, Tail(msgs))

Msg(text, p) == [text |-> text, path |-> p]

\* under30 in prune_log
Under30(d, t) == d > LocalNow(t) - RetentionDays * HoursPerDay

\* prune_log on an existing file: keep the lines whose first token is a
\* timestamp inside the window, joined by "\n" with no newline at the end
PruneLogFile(lg, t) ==
    LET Keep(line) == Under30(line[1].ts, t)
    IN  [exists |-> TRUE, lines |-> SelectSeq(lg.lines, Keep), nl |-> FALSE]

\* a line write_log wrote the given number of days before the first run
OldLine(days, msg) == <<[ts |-> LocalNow(StartTime) - days * HoursPerDay, msg |-> msg]>>

\* the log file four earlier runs left that each ended on a listing error,
\* 40, 31, 20 and 1 days ago: one line each, and no prune_log since
OldLog ==
    [exists |-> TRUE,
     lines |-> << OldLine(40, Msg("Download folder error", <<"/", "R">>)),
                  OldLine(31, Msg("Download folder error", <<"/", "R">>)),
                  OldLine(20, Msg("Download folder error", <<"/", "R">>)),
                  OldLine(1, Msg("Download folder error", <<"/", "R">>)) >>,
     nl |-> TRUE]

\* the file a run without downloads left 31 days ago, after a run that
\* ended on a listing error 40 days ago: prune_log wrote it last
StaleLog ==
    [exists |-> TRUE,
     lines |-> << OldLine(40, Msg("Download folder error", <<"/", "R">>)),
                  OldLine(31, Msg("up to date", <<"/", "R", "/", "a">>)) >>,
     nl |-> FALSE]

\* the log file before the first run of a fresh installation: none yet
InitialLogs == { NoLog }

\* str(pathlib.Path)
RECURSIVE Str(_)
Str(p) == IF p = <<>> THEN <<>> ELSE <<"/", Head(p)>> \o Str(Tail(p))

-----------------------------------------------------------------------------
(* handle_file *)

NeedsDownloadNaive(f, local_path, entry) ==
    IF ~Exists(f, local_path) THEN TRUE
    ELSE LaterNaive(entry.client_modified, FromTimestamp(f[local_path].mtime))

\* needs_download, lines 102-110
NeedsDownload(f, local_path, entry) ==
    IF ~Exists(f, local_path) THEN TRUE
    ELSE Later(entry.client_modified, FromTimestamp(f[local_path].mtime))

\* a request as the Dropbox API sees it: the endpoint, the path or the
\* cursor it carries, and what came back
NoCursor == [path |-> <<>>, page |-> 0]
Request(op, p, cursor, status) ==
    [op |-> op, path |-> p, cursor |-> cursor, status |-> status]

\* download_file, lines 73-81
Download(p, status) == Request("download", p, NoCursor, status)

\* what one call of handle_file does: the exception that leaves it ("none"
\* when it returns), the filesystem afterwards, the messages logged, the
\* request issued and the set returned
HandleFileResult(raised, f, msgs, reqs, ret) ==
    [raised |-> raised, fs |-> f, msgs |-> msgs, calls |-> reqs, ret |-> ret]

DownloadErrorRaised(f, dbx, local_path) ==
    HandleFileResult("DropboxAPIError", f, <<>>, <<Download(dbx, "error")>>, {})

DownloadErrorNotKept(f, dbx, local_path) ==
    HandleFileResult("none", f, <<Msg("Error downloading", dbx)>>,
                     <<Download(dbx, "error")>>, {})

DownloadErrorTruncates(f, dbx, local_path) ==
    HandleFileResult("none",
                     [f EXCEPT ![Resolve(local_path)] = FileNode(f[Parent(Resolve(local_path))].mtime, "partial")],
                     <<Msg("Error downloading", dbx)>>,
                     <<Download(dbx, "error")>>, {Str(local_path)})

\* lines 116-117 and 120: download_file raised DropboxAPIError, handle_file
\* logs it and goes on to its return statement
DownloadError(f, dbx, local_path) ==
    HandleFileResult("none", f, <<Msg("Error downloading", dbx)>>,
                     <<Download(dbx, "error")>>, {Str(local_path)})

\* handle_file, lines 96-120
handle_file(f, root_folder, entry, outcome, t) ==
    LET dbx == entry.path_display
        local_path == LocalPath(root_folder, dbx)
        \* the file the system calls on local_path act on
        target == Resolve(local_path)
    IN  IF MkdirRaises(f, Parent(local_path))
        THEN HandleFileResult("OSError", f, <<>>, <<>>, {})
        ELSE
        LET f1 == Mkdir(f, Parent(local_path), t) IN
        IF ~NeedsDownload(f1, target, entry)
        THEN HandleFileResult("none", f1, <<Msg("up to date", dbx)>>, <<>>,
                              {Str(local_path)})
        ELSE
        CASE outcome = "exception" ->
                HandleFileResult("ConnectionError", f1, <<>>,
                                 <<Download(dbx, outcome)>>, {})
          [] outcome = "error" -> DownloadError(f1, dbx, local_path)
          [] outcome = "200" ->
                IF IsDir(f1, target)
                THEN HandleFileResult("OSError", f1, <<>>,
                                      <<Download(dbx, outcome)>>, {})
                ELSE HandleFileResult("none",
                                      WriteBytes(f1, target, t, "dropbox"),
                                      <<Msg("Saved", local_path)>>,
                                      <<Download(dbx, outcome)>>,
                                      {Str(local_path)})

-----------------------------------------------------------------------------
(* cleanup and delete_empty_folders *)

\* the files cleanup removes: those os.walk reports whose str() is not in
\* current_paths
CleanupTargetsNoStr(f, keep, root_folder) ==
    { p \in WalkFiles(f, root_folder) : p \notin keep }

CleanupTargets(f, keep, root_folder) ==
    { p \in WalkFiles(f, root_folder) : Str(p) \notin keep }

\* the directories delete_empty_folders removes.  os.walk(topdown=False)
\* lists a directory before it descends into it and yields it afterwards, so
\* the subdirs and files it hands out are those of the moment the pass
\* reached the directory, whatever was removed from it since
EmptyDirs(f, root) ==
    { d \in WalkDirs(f, root) : Files(f, d) = {} /\ SubDirs(f, d) = {} }

\* the orders in which a walk can meet the members of S
Orders(S) ==
    { sq \in [1..Cardinality(S) -> S] : \A x \in S : \E i \in DOMAIN sq : sq[i] = x }

RemovalMsgs(text, sq) == [i \in DOMAIN sq |-> Msg(text, sq[i])]

-----------------------------------------------------------------------------
(* Initial states *)

MkFs(dirs, files) ==
    [q \in Nodes |->
        IF q \in dirs THEN DirNode(InitMtime)
        ELSE IF q \in files THEN FileNode(InitMtime, "local")
        ELSE Absent]

NodeA == R \o <<"a">>
NodeD == R \o <<"d">>
NodeB == R \o <<"d", "b">>
NodeE == R \o <<"e">>
NodeS == R \o <<"s">>
NodeT == R \o <<"s", "t">>
NodeU == R \o <<"s", "t", "u">>

\* what the local root holds before the first run: nothing; a mirror of a
\* and b; the mirror and a stale file two directories down; only the stale
\* chain; a directory where file a belongs; a file where folder d belongs
LocalTrees ==
    { MkFs({Root}, {}),
      MkFs({Root, R, NodeD}, {NodeA, NodeB}),
      MkFs({Root, R, NodeD, NodeS, NodeT}, {NodeA, NodeB, NodeU}),
      MkFs({Root, R, NodeS, NodeT}, {NodeU}),
      MkFs({Root, R, NodeA}, {}),
      MkFs({Root, R}, {NodeD}) }

\* the folder argument, with and without its leading "/"
Arguments == { DbxR, <<"R">> }

Init ==
    /\ dropbox_path \in Arguments
    /\ remote \in RemoteTrees
    /\ fs \in LocalTrees
    /\ now = StartTime
    /\ log \in InitialLogs
    /\ pc = "main"
    /\ stack = <<>>
    /\ current_paths = {}
    /\ exit = "none"
    /\ calls = <<>>
    /\ processed = <<>>
    /\ removed = {}
    /\ run = 1
    /\ hist = <<>>
    /\ faults = 0

-----------------------------------------------------------------------------
(* The run *)

Frame(p) ==
    [path |-> p, state |-> "call", entries |-> <<>>, i |-> 1,
     cursor |-> [path |-> p, page |-> 0], has_more |-> FALSE, current_paths |-> {}]

Top == stack[Len(stack)]
SetTop(fr) == [stack EXCEPT ![Len(stack)] = fr]

\* an exception leaves every activation record and ends the process
Raise(exc) ==
    /\ exit' = exc
    /\ pc' = "exit"
    /\ stack' = <<>>

MainNoCheck ==
    /\ pc = "main"
    /\ pc' = "walk"
    /\ stack' = <<Frame(dropbox_path)>>
    /\ UNCHANGED <<dropbox_path, remote, fs, now, log, current_paths, exit, calls,
                   processed, removed, run, hist, faults>>

\* __main__, lines 180-185: the argument check and the call of download_folder
Main ==
    /\ pc = "main"
    /\ IF Head(dropbox_path) # "/"
       THEN Raise("InvalidDropboxPath")
       ELSE /\ pc' = "walk"
            /\ stack' = <<Frame(dropbox_path)>>
            /\ exit' = exit
    /\ UNCHANGED <<dropbox_path, remote, fs, now, log, current_paths, calls,
                   processed, removed, run, hist, faults>>

LoadPageOnce(fr, res) ==
    [fr EXCEPT !.state = "loop", !.entries = res.entries, !.i = 1,
               !.cursor = res.cursor, !.has_more = FALSE]

\* a page arrives: the loop over its entries starts
LoadPage(fr, res) ==
    [fr EXCEPT !.state = "loop", !.entries = res.entries, !.i = 1,
               !.cursor = res.cursor, !.has_more = res.has_more]

ListingErrorSwallowed(req) ==
    /\ log' = WriteLog(log, now, Msg("Download folder error", Top.path))
    /\ stack' = SetTop(LoadPage(Top, [entries |-> <<>>, cursor |-> Top.cursor,
                                      has_more |-> FALSE]))
    /\ UNCHANGED <<pc, exit>>

\* lines 129-131 and 148-150: a status other than 200 is logged and raised
ListingError(req) ==
    /\ log' = WriteLog(log, now, Msg("Download folder error", Top.path))
    /\ Raise("DropboxAPIError")

\* what a listing request does to the run, lines 126-133 and 145-152
Listed(req, status, res) ==
    /\ calls' = Append(calls, req)
    /\ CASE status = "200" ->
              /\ stack' = SetTop(LoadPage(Top, res))
              /\ UNCHANGED <<pc, exit, log>>
         [] status = "error" -> ListingError(req)
         [] status = "exception" ->
              /\ Raise("ConnectionError")
              /\ log' = log
    /\ faults' = faults + Fault(<<req>>)
    /\ UNCHANGED <<dropbox_path, remote, fs, now, current_paths, processed,
                   removed, run, hist>>

\* download_folder, lines 124-133: the list_folder request
ListFolder ==
    /\ pc = "walk"
    /\ Top.state = "call"
    /\ \E status \in OutcomesLeft(faults) :
        /\ status = "200" => Top.path \in DOMAIN remote
        /\ Listed(Request("list_folder", Top.path, NoCursor, status), status,
                  IF Top.path \in DOMAIN remote
                  THEN ListFolderResponse(remote, Top.path)
                  ELSE [entries |-> <<>>, cursor |-> Top.cursor, has_more |-> FALSE])

\* download_folder, lines 143-152: the list_folder/continue request
ListFolderContinue ==
    /\ pc = "walk"
    /\ Top.state = "loop"
    /\ Top.i > Len(Top.entries)
    /\ Top.has_more
    /\ \E status \in OutcomesLeft(faults) :
        Listed(Request("list_folder/continue", <<>>, Top.cursor, status), status,
               ListFolderContinueResponse(remote, Top.cursor))

AtEntry ==
    /\ pc = "walk"
    /\ Top.state = "loop"
    /\ Top.i <= Len(Top.entries)

\* lines 135-138 and 154-157: a folder entry, download_folder calls itself
RecurseFolder ==
    /\ AtEntry
    /\ LET entry == Top.entries[Top.i] IN
       /\ entry.tag = "folder"
       /\ stack' = Append(SetTop([Top EXCEPT !.i = @ + 1]), Frame(entry.path_display))
       /\ processed' = Append(processed, entry)
    /\ UNCHANGED <<dropbox_path, remote, fs, now, log, pc, current_paths, exit,
                   calls, removed, run, hist, faults>>

\* lines 139-140 and 158-159: a file entry, handle_file
HandleFile ==
    /\ AtEntry
    /\ LET entry == Top.entries[Top.i] IN
       /\ entry.tag = "file"
       /\ \E outcome \in OutcomesLeft(faults) :
            LET r == handle_file(fs, Root, entry, outcome, now) IN
            /\ fs' = r.fs
            /\ log' = WriteLogs(log, now, r.msgs)
            /\ calls' = calls \o r.calls
            /\ faults' = faults + Fault(r.calls)
            /\ IF r.raised = "none"
               THEN /\ stack' = SetTop([Top EXCEPT !.i = @ + 1,
                                          !.current_paths = @ \cup r.ret])
                    /\ processed' = Append(processed, entry)
                    /\ UNCHANGED <<pc, exit>>
               ELSE /\ Raise(r.raised)
                    /\ processed' = processed
    /\ UNCHANGED <<dropbox_path, remote, now, current_paths, removed, run, hist>>

ReturnFolderDropsChild ==
    /\ pc = "walk"
    /\ Top.state = "loop"
    /\ Top.i > Len(Top.entries)
    /\ ~Top.has_more
    /\ IF Len(stack) = 1
       THEN /\ current_paths' = Top.current_paths
            /\ stack' = <<>>
            /\ pc' = "cleanup"
       ELSE /\ stack' = SubSeq(stack, 1, Len(stack) - 1)
            /\ UNCHANGED <<current_paths, pc>>
    /\ UNCHANGED <<dropbox_path, remote, fs, now, log, exit, calls, processed,
                   removed, run, hist, faults>>

\* line 163: return current_paths, to the calling download_folder or to __main__
ReturnFolder ==
    /\ pc = "walk"
    /\ Top.state = "loop"
    /\ Top.i > Len(Top.entries)
    /\ ~Top.has_more
    /\ IF Len(stack) = 1
       THEN /\ current_paths' = Top.current_paths
            /\ stack' = <<>>
            /\ pc' = "cleanup"
       ELSE /\ stack' = [SubSeq(stack, 1, Len(stack) - 1) EXCEPT
                           ![Len(stack) - 1].current_paths = @ \cup Top.current_paths]
            /\ UNCHANGED <<current_paths, pc>>
    /\ UNCHANGED <<dropbox_path, remote, fs, now, log, exit, calls, processed,
                   removed, run, hist, faults>>

\* cleanup(current_paths, output), lines 39-45
Cleanup ==
    /\ pc = "cleanup"
    /\ LET targets == CleanupTargets(fs, current_paths, Root) IN
       /\ fs' = Unlink(fs, targets, now)
       /\ removed' = removed \cup targets
       /\ \E sq \in Orders(targets) :
            log' = WriteLogs(log, now, RemovalMsgs("Removed filed", sq))
    /\ pc' = "delete_empty_folders"
    /\ UNCHANGED <<dropbox_path, remote, now, stack, current_paths, exit, calls,
                   processed, run, hist, faults>>

\* delete_empty_folders(output), lines 61-70
DeleteEmptyFolders ==
    /\ pc = "delete_empty_folders"
    /\ LET deleted == EmptyDirs(fs, Root) IN
       /\ fs' = Unlink(fs, deleted, now)
       /\ removed' = removed \cup deleted
       /\ \E sq \in Orders(deleted) :
            log' = WriteLogs(log, now, RemovalMsgs("Removed empty directory", sq))
    /\ pc' = "prune_log"
    /\ UNCHANGED <<dropbox_path, remote, now, stack, current_paths, exit, calls,
                   processed, run, hist, faults>>

\* prune_log(), lines 48-58; LOGFILE.open() raises when nothing was ever logged
PruneLog ==
    /\ pc = "prune_log"
    /\ IF log.exists
       THEN /\ log' = PruneLogFile(log, now)
            /\ exit' = "ok"
       ELSE /\ log' = log
            /\ exit' = "OSError"
    /\ pc' = "exit"
    /\ UNCHANGED <<dropbox_path, remote, fs, now, stack, current_paths, calls,
                   processed, removed, run, hist, faults>>

Summary ==
    [exit |-> exit, current_paths |-> current_paths, calls |-> calls,
     processed |-> processed, removed |-> removed]

\* cron starts the script again, with the same arguments
NextRun ==
    /\ pc = "exit"
    /\ run < MaxRuns
    /\ now' = now + CronGap
    /\ hist' = Append(hist, Summary)
    /\ run' = run + 1
    /\ pc' = "main"
    /\ exit' = "none"
    /\ calls' = <<>>
    /\ processed' = <<>>
    /\ removed' = {}
    /\ current_paths' = {}
    /\ UNCHANGED <<dropbox_path, remote, fs, log, stack, faults>>

Next ==
    \/ Main
    \/ ListFolder
    \/ ListFolderContinue
    \/ RecurseFolder
    \/ HandleFile
    \/ ReturnFolder
    \/ Cleanup
    \/ DeleteEmptyFolders
    \/ PruneLog
    \/ NextRun

Spec == Init /\ [][Next]_vars

-----------------------------------------------------------------------------
(* cleanup and delete_empty_folders on their own: any tree under the root  *)
(* whose files sit at a, b or u, and any keep set over those three paths   *)

NodeKinds(q) ==
    IF q = Root THEN {DirNode(InitMtime)}
    ELSE IF q \in {NodeA, NodeB, NodeU}
         THEN {Absent, DirNode(InitMtime), FileNode(InitMtime, "local")}
         ELSE {Absent, DirNode(InitMtime)}

AllLocalTrees ==
    { f \in [Nodes -> {Absent, DirNode(InitMtime), FileNode(InitMtime, "local")}] :
        \A q \in Nodes : /\ f[q] \in NodeKinds(q)
                         /\ (Exists(f, q) /\ q # Root) => IsDir(f, Parent(q)) }

KeepSets == SUBSET { Str(NodeA), Str(NodeB), Str(NodeU) }

InitCleanup ==
    /\ dropbox_path = DbxR
    /\ remote = TreeEmpty
    /\ fs \in AllLocalTrees
    /\ current_paths \in KeepSets
    /\ now = StartTime
    /\ log = NoLog
    /\ pc = "cleanup"
    /\ stack = <<>>
    /\ exit = "none"
    /\ calls = <<>>
    /\ processed = <<>>
    /\ removed = {}
    /\ run = 1
    /\ hist = <<>>
    /\ faults = 0

NextCleanup ==
    \/ Cleanup
    \/ DeleteEmptyFolders
    \/ PruneLog

SpecCleanup == InitCleanup /\ [][NextCleanup]_vars

-----------------------------------------------------------------------------
(* the run on a listing with a path_display that holds ".." segments *)

InitEscape ==
    /\ dropbox_path = DbxR
    /\ remote = TreeEscape
    /\ fs \in LocalTrees
    /\ now = StartTime
    /\ log \in InitialLogs
    /\ pc = "main"
    /\ stack = <<>>
    /\ current_paths = {}
    /\ exit = "none"
    /\ calls = <<>>
    /\ processed = <<>>
    /\ removed = {}
    /\ run = 1
    /\ hist = <<>>
    /\ faults = 0

SpecEscape == InitEscape /\ [][Next]_vars

-----------------------------------------------------------------------------
(* the run after a pause: the log file was last written 31 days ago *)

InitLog ==
    /\ dropbox_path = DbxR
    /\ remote = TreeFull(StampB)
    /\ fs \in LocalTrees
    /\ now = StartTime
    /\ log \in {NoLog, OldLog, StaleLog}
    /\ pc = "main"
    /\ stack = <<>>
    /\ current_paths = {}
    /\ exit = "none"
    /\ calls = <<>>
    /\ processed = <<>>
    /\ removed = {}
    /\ run = 1
    /\ hist = <<>>
    /\ faults = 0

SpecLog == InitLog /\ [][Next]_vars

-----------------------------------------------------------------------------
(* Vocabulary of the properties *)

AllOK(reqs) == \A i \in DOMAIN reqs : reqs[i].status = "200"

IsListing(req) == req.op \in {"list_folder", "list_folder/continue"}

\* the top-level download_folder has returned to __main__
WalkReturned ==
    \/ pc \in {"cleanup", "delete_empty_folders", "prune_log"}
    \/ pc = "exit" /\ exit = "ok"

\* the files below the local root
LocalFiles(f) == { p \in DOMAIN f : IsFile(f, p) /\ Under(Root, p) /\ Reachable(f, p) }

\* the local paths of the file entries of the synced remote tree
MirrorFiles ==
    { LocalPath(Root, e.path_display) : e \in RemoteFiles(remote, dropbox_path) }

Events(lg) == UNION { Range(lg.lines[i]) : i \in DOMAIN lg.lines }

LoggedIn(lg, text, p) == \E ev \in Events(lg) : ev.msg = Msg(text, p)
Logged(text, p) == LoggedIn(log, text, p)

Requested(req) == \E i \in DOMAIN calls : calls[i] = req

Handled(p) == \E i \in DOMAIN processed : processed[i].path_display = p

-----------------------------------------------------------------------------
\* C1: after a complete run (walk, cleanup, delete_empty_folders) in which
\* every listing call and every download succeeded, the files under the
\* local root are exactly the local paths of the remote file entries,
\* whatever the root held before the run.
C1_MirrorExact ==
    (pc = "prune_log" /\ AllOK(calls)) => LocalFiles(fs) = MirrorFiles

-----------------------------------------------------------------------------
\* C2: a list_folder or list_folder/continue call that returns a status
\* other than 200, at any depth, ends the run with DropboxAPIError before
\* cleanup, delete_empty_folders and prune_log: nothing has been deleted, no
\* keep set has reached __main__ and the log was not rewritten.
C2_ListingErrorAborts ==
    (\E i \in DOMAIN calls : IsListing(calls[i]) /\ calls[i].status = "error")
        => /\ pc = "exit"
           /\ exit = "DropboxAPIError"
           /\ removed = {}
           /\ current_paths = {}
           /\ log.nl

\* a continuation page of the top folder fails after b was downloaded, and
\* the stale file u is still there when the process has ended
C2_Witness ==
    /\ pc = "exit"
    /\ Requested(Request("list_folder/continue", <<>>, [path |-> DbxR, page |-> 2], "error"))
    /\ IsFile(fs, NodeU)
    /\ fs[NodeB].content = "dropbox"

-----------------------------------------------------------------------------
\* C3: cleanup(keepSet, root) deletes exactly the files under root whose
\* path string is not in keepSet: a file in keepSet is left as it was, a
\* file not in keepSet is gone, and no directory is removed.
C3_CleanupExact ==
    [][pc = "cleanup" =>
        \A p \in Nodes :
            /\ (IsFile(fs, p) /\ Str(p) \in current_paths) => fs'[p] = fs[p]
            /\ (IsFile(fs, p) /\ Str(p) \notin current_paths) => ~Exists(fs', p)
            /\ IsDir(fs, p) => IsDir(fs', p)
            /\ ~Exists(fs, p) => ~Exists(fs', p)]_vars

\* cleanup has run on files a, b and u with keep set {a, b}: u is gone,
\* a and b are untouched
C3_Witness ==
    /\ pc = "delete_empty_folders"
    /\ current_paths = {Str(NodeA), Str(NodeB)}
    /\ removed = {NodeU}
    /\ fs[NodeA] = FileNode(InitMtime, "local")
    /\ fs[NodeB] = FileNode(InitMtime, "local")
    /\ ~Exists(fs, NodeU)

-----------------------------------------------------------------------------
\* C4: every path in the keep set download_folder returns names something
\* that exists locally when the walk returns; the path of a file that had no
\* local copy and whose download failed is not in it.
C4_KeepSetExists ==
    pc = "cleanup" => \A s \in current_paths : Exists(fs, Parts(s))

-----------------------------------------------------------------------------
\* C5: a download that comes back with a status other than 200 does not
\* abort the walk: handle_file logs the failure and returns, the loop goes
\* on with the next entry, and a walk that returns has handled every entry
\* of the remote tree in listing order.
C5_DownloadErrorIsolated ==
    /\ [][\A e \in RemoteFiles(remote, dropbox_path) :
            calls' = Append(calls, Download(e.path_display, "error"))
                => /\ pc' = "walk"
                   /\ exit' = "none"
                   /\ processed' = Append(processed, e)
                   /\ stack'[Len(stack')].i = stack[Len(stack)].i + 1
                   /\ LoggedIn(log', "Error downloading", e.path_display)]_vars
    /\ [](WalkReturned => processed = AllEntries(remote, dropbox_path))

\* the download of b failed with a status, folder e and file a behind it
\* were handled, and the run has reached cleanup
C5_Witness ==
    /\ pc = "cleanup"
    /\ Requested(Download(DbxB, "error"))
    /\ Handled(DbxE)
    /\ Handled(DbxA)

-----------------------------------------------------------------------------
\* C6: a download whose transport call raises instead of returning a
\* response is caught and logged inside handle_file: the entry counts as
\* handled and the process has not ended with the transport's exception.
C6_NetworkErrorIsolated ==
    \A i \in DOMAIN calls :
        (calls[i].op = "download" /\ calls[i].status = "exception")
            => /\ exit # "ConnectionError"
               /\ Handled(calls[i].path)

-----------------------------------------------------------------------------
\* C7: when the walk has returned, every folder entry of the remote listing
\* has its local directory, folders without files included.
C7_FoldersCreated ==
    pc = "cleanup" =>
        \A e \in RemoteFolders(remote, dropbox_path) :
            IsDir(fs, LocalPath(Root, e.path_display))

-----------------------------------------------------------------------------
\* C8: after the single pass of delete_empty_folders no directory below the
\* root is left with neither files nor subdirectories.
C8_NoEmptyDirLeft ==
    pc = "prune_log" =>
        \A d \in Nodes :
            (IsDir(fs, d) /\ Under(Root, d) /\ d # Root) => Children(fs, d) # {}

-----------------------------------------------------------------------------
\* C9: when the previous walk returned without a failed request, nothing
\* was removed after it and the remote tree has not changed, the walk of
\* this run requests no download and returns the keep set of the previous
\* one, whatever the client_modified timestamps are.
C9_Idempotent ==
    (/\ Len(hist) >= 1
     /\ hist[Len(hist)].exit = "ok"
     /\ AllOK(hist[Len(hist)].calls)
     /\ hist[Len(hist)].removed = {}
     /\ WalkReturned)
        => /\ \A i \in DOMAIN calls : calls[i].op # "download"
           /\ current_paths = hist[Len(hist)].current_paths

-----------------------------------------------------------------------------
\* C10: handle_file requests the download of a file exactly when the file
\* has no local copy or the instant of the remote client_modified is
\* strictly later than the instant of the local modification time.
C10_FreshnessDecision ==
    [][(/\ AtEntry
        /\ Top.entries[Top.i].tag = "file"
        /\ ~MkdirRaises(fs, Parent(LocalPath(Root, Top.entries[Top.i].path_display))))
        => LET e == Top.entries[Top.i]
               local_path == LocalPath(Root, e.path_display)
               wanted == \/ ~Exists(fs, local_path)
                         \/ Instant(e.client_modified) > fs[local_path].mtime
           IN  /\ wanted => /\ Len(calls') = Len(calls) + 1
                            /\ calls'[Len(calls')].op = "download"
                            /\ calls'[Len(calls')].path = e.path_display
               /\ ~wanted => /\ calls' = calls
                             /\ fs'[local_path] = fs[local_path]
                             /\ LoggedIn(log', "up to date", e.path_display)]_vars

\* file a, modified remotely at the very instant of the local copy but
\* stamped in another zone, was found up to date
C10_Witness ==
    /\ remote = TreeFull(Stamp(7, 2))
    /\ Handled(DbxA)
    /\ Logged("up to date", DbxA)
    /\ fs[NodeA] = FileNode(InitMtime, "local")
    /\ \A i \in DOMAIN calls : calls[i].path # DbxA

-----------------------------------------------------------------------------
\* the list_folder/continue requests of this run for folder p, in call order
ContinueRequests(p) ==
    SelectSeq(calls, LAMBDA r : r.op = "list_folder/continue" /\ r.cursor.path = p)

\* C11: for a folder whose listing arrives in pages, download_folder asks
\* for the continuation pages one after the other, each request carrying
\* the cursor that came with the page before it, until a page says
\* has_more false; the entries of all pages are processed once each, in
\* listing order, and all of them before download_folder returns.
C11_Pagination ==
    /\ IsPrefix(processed, AllEntries(remote, dropbox_path))
    /\ \A p \in DOMAIN remote :
         /\ \A k \in DOMAIN ContinueRequests(p) :
              /\ k < Len(remote[p])
              /\ ContinueRequests(p)[k].cursor = [path |-> p, page |-> k]
         /\ WalkReturned => /\ Len(ContinueRequests(p)) = Len(remote[p]) - 1
                            /\ AllOK(ContinueRequests(p))
    /\ WalkReturned => processed = AllEntries(remote, dropbox_path)

\* the three pages of /R were fetched and the four entries of the tree
\* processed when the walk returned
C11_Witness ==
    /\ pc = "cleanup"
    /\ Len(remote[DbxR]) = 3
    /\ Len(ContinueRequests(DbxR)) = 2
    /\ Len(processed) = 4
    /\ processed[4].path_display = DbxA

-----------------------------------------------------------------------------
\* C12: when the walk returns and no request of it failed, the keep set
\* has one member for each file entry of the remote tree, the files of
\* nested folders and of continuation pages included, and no other member;
\* each member is the string of a path below the local root.
C12_KeepSetComplete ==
    (pc = "cleanup" /\ AllOK(calls))
        => /\ current_paths = { Str(p) : p \in MirrorFiles }
           /\ Cardinality(current_paths)
                = Cardinality(RemoteFiles(remote, dropbox_path))
           /\ \A p \in MirrorFiles : Under(Root, Resolve(p)) /\ Resolve(p) # Root

\* both files of the tree, the nested one and the one of the last page,
\* are in the keep set of a walk without failures
C12_Witness ==
    /\ pc = "cleanup"
    /\ AllOK(calls)
    /\ current_paths = {Str(NodeA), Str(NodeB)}
    /\ Cardinality(RemoteFiles(remote, dropbox_path)) = 2

-----------------------------------------------------------------------------
\* the keep-set members collected so far, in __main__ and in the
\* activations of download_folder
KeepSoFar == current_paths \cup UNION { stack[i].current_paths : i \in DOMAIN stack }

\* C13: every local path the walk creates, writes or adds to the keep set
\* resolves underneath the local root: an entry whose path_display holds
\* ".." segments causes no directory or file outside the root.
C13_StaysUnderRoot ==
    /\ \A q \in DOMAIN fs : Exists(fs, q) => Under(Root, q)
    /\ \A s \in KeepSoFar : Under(Root, Resolve(Parts(s)))

-----------------------------------------------------------------------------
\* C14: whatever write_log and prune_log did to the log file, over one run
\* or several, every line of the file holds one event: an event written
\* after a prune_log starts a line of its own.
C14_OneEventPerLine ==
    \A i \in DOMAIN log.lines : Len(log.lines[i]) = 1

-----------------------------------------------------------------------------
\* the events of the log file, in file order
EventSeq(lg) == Flatten(lg.lines)

\* C15: prune_log leaves in the log file the events that are less than 30
\* days old, all of them and no other, in the order they had.
C15_PruneExact ==
    [][(pc = "prune_log" /\ log.exists)
        => LET InWindow(ev) == LocalNow(now) - ev.ts < RetentionDays * HoursPerDay
           IN  EventSeq(log') = SelectSeq(EventSeq(log), InWindow)]_vars

-----------------------------------------------------------------------------
\* C16: when the folder argument does not start with "/", the run ends
\* with InvalidDropboxPath and nothing else happens: no listing or download
\* request is sent, no log entry is written, and no local file or directory
\* is created or deleted.
C16_BadArgumentFailsFirst ==
    Head(dropbox_path) # "/"
        => /\ pc \in {"main", "exit"}
           /\ pc = "exit" => exit = "InvalidDropboxPath"
           /\ calls = <<>>
           /\ processed = <<>>
           /\ removed = {}
           /\ log \in InitialLogs
           /\ fs \in LocalTrees
           /\ \A i \in DOMAIN hist : /\ hist[i].exit = "InvalidDropboxPath"
                                    /\ hist[i].calls = <<>>
                                    /\ hist[i].removed = {}

\* the second run with the argument "R" has failed as the first did, the
\* stale file still there and still no log file
C16_Witness ==
    /\ dropbox_path = <<"R">>
    /\ run = 2
    /\ pc = "exit"
    /\ exit = "InvalidDropboxPath"
    /\ IsFile(fs, NodeU)
    /\ log = NoLog

-----------------------------------------------------------------------------
\* the local paths of the file entries the walk of this run has processed
ListedFiles ==
    { LocalPath(Root, processed[i].path_display) :
        i \in { j \in DOMAIN processed : processed[j].tag = "file" } }

\* C17: cleanup deletes no local file whose remote file entry the walk of
\* the same run processed, the file whose download failed and whose local
\* copy is a stale one included.
C17_ListedFilesSurviveCleanup ==
    [][pc = "cleanup"
        => \A p \in ListedFiles :
              IsFile(fs, p) => /\ fs'[p] = fs[p]
                               /\ p \notin removed']_vars

\* the download of a failed with a status other than 200, and the local
\* copy of a from before the run is still there after cleanup
C17_Witness ==
    /\ pc = "delete_empty_folders"
    /\ Requested(Download(DbxA, "error"))
    /\ fs[NodeA] = FileNode(InitMtime, "local")
    /\ removed # {}

-----------------------------------------------------------------------------
\* C18: when the download of a file that has a local copy fails with a
\* status other than 200, handle_file leaves the content and the
\* modification time of the copy as they were; the next run, on the same
\* remote tree, requests the download of that file again.
C18_FailedDownloadKeepsCopy ==
    /\ [][(/\ AtEntry
           /\ Top.entries[Top.i].tag = "file"
           /\ calls' # calls
           /\ calls'[Len(calls')] = Download(Top.entries[Top.i].path_display, "error"))
          => LET local_path == LocalPath(Root, Top.entries[Top.i].path_display)
             IN  /\ fs'[local_path] = fs[local_path]
                 /\ Exists(fs, local_path) =>
                        Instant(Top.entries[Top.i].client_modified)
                            > fs'[local_path].mtime]_vars
    /\ [](\A e \in RemoteFiles(remote, dropbox_path) :
            (/\ Len(hist) >= 1
             /\ \E i \in DOMAIN hist[Len(hist)].calls :
                    hist[Len(hist)].calls[i] = Download(e.path_display, "error")
             /\ Handled(e.path_display))
                => \E i \in DOMAIN calls : /\ calls[i].op = "download"
                                           /\ calls[i].path = e.path_display)

\* run 1 found the local copy of a older than the remote file and failed to
\* download it; run 2 asked for it again and saved it
C18_Witness ==
    /\ run = 2
    /\ NodeU \in hist[1].removed
    /\ \E i \in DOMAIN hist[1].calls : hist[1].calls[i] = Download(DbxA, "error")
    /\ Requested(Download(DbxA, "200"))
    /\ fs[NodeA].content = "dropbox"

-----------------------------------------------------------------------------
\* C19: the local root is still a directory after a complete run:
\* delete_empty_folders removes directories below the root only, never the
\* root, also when cleanup left the root without files and subdirectories.
C19_RootSurvives ==
    /\ Root \notin removed
    /\ (pc = "prune_log" \/ (pc = "exit" /\ exit = "ok")) => IsDir(fs, Root)

====
